---- MODULE Spec2Model ----
(***************************************************************************)
(* HTML escaping engine of sailfish (runtime/escape): the classification   *)
(* and entity tables, the scanner tiers, the process-wide dispatch slot FN *)
(* with its first-use selector and the override hook.                      *)
(*                                                                         *)
(* Text is a sequence of bytes (0..255).  Sequences are 1-based, so the    *)
(* byte b indexes the tables at b + 1.                                     *)
(***************************************************************************)
EXTENDS Integers, Sequences, FiniteSets, TLC

(***************************************************************************)
(* Bounds of the model.                                                    *)
(***************************************************************************)
\* number of characters of a dense input of the scanner specification
MaxDense == 3
\* number of bytes of a one-signal input of the scanner specification
MaxLen == 65
\* the capability-probe counter saturates here
MaxProbes == 2

(***************************************************************************)
(* Classification and entity tables (mod.rs 17-31).                        *)
(***************************************************************************)
ESCAPE_LUT ==
   <<
     9, 9, 9, 9, 9, 9, 9, 9, 9, 9, 9, 9, 9, 9, 9, 9, 9, 9, 9, 9, 9, 9, 9, 9, 9, 9, 9, 9, 9, 9, 9, 9,
     9, 9, 0, 9, 9, 9, 1, 2, 9, 9, 9, 9, 9, 9, 9, 9, 9, 9, 9, 9, 9, 9, 9, 9, 9, 9, 9, 9, 3, 9, 4, 9,
     9, 9, 9, 9, 9, 9, 9, 9, 9, 9, 9, 9, 9, 9, 9, 9, 9, 9, 9, 9, 9, 9, 9, 9, 9, 9, 9, 9, 9, 9, 9, 9,
     9, 9, 9, 9, 9, 9, 9, 9, 9, 9, 9, 9, 9, 9, 9, 9, 9, 9, 9, 9, 9, 9, 9, 9, 9, 9, 9, 9, 9, 9, 9, 9,
     9, 9, 9, 9, 9, 9, 9, 9, 9, 9, 9, 9, 9, 9, 9, 9, 9, 9, 9, 9, 9, 9, 9, 9, 9, 9, 9, 9, 9, 9, 9, 9,
     9, 9, 9, 9, 9, 9, 9, 9, 9, 9, 9, 9, 9, 9, 9, 9, 9, 9, 9, 9, 9, 9, 9, 9, 9, 9, 9, 9, 9, 9, 9, 9,
     9, 9, 9, 9, 9, 9, 9, 9, 9, 9, 9, 9, 9, 9, 9, 9, 9, 9, 9, 9, 9, 9, 9, 9, 9, 9, 9, 9, 9, 9, 9, 9,
     9, 9, 9, 9, 9, 9, 9, 9, 9, 9, 9, 9, 9, 9, 9, 9, 9, 9, 9, 9, 9, 9, 9, 9, 9, 9, 9, 9, 9, 9, 9, 9
   >>

ESCAPED ==
   << <<38, 113, 117, 111, 116, 59>>,
      <<38, 97, 109, 112, 59>>,
      <<38, 35, 48, 51, 57, 59>>,
      <<38, 108, 116, 59>>,
      <<38, 103, 116, 59>> >>

ESCAPED_LEN == 5

\* the table with a stray entry: # (35) classified like " (34)
Classify_StrayHash(b) == IF b = 35 THEN 0 ELSE ESCAPE_LUT[b + 1]

\* the table indexed by the byte as a signed value with the sign dropped, so
\* that 162 is classified like 34
Classify_HighBit(b) == ESCAPE_LUT[(b % 128) + 1]

\* a table whose entry for > is neither the sentinel nor an entity index
Classify_OutOfRange(b) == IF b = 62 THEN ESCAPED_LEN ELSE ESCAPE_LUT[b + 1]

\* ESCAPE_LUT[*ptr as usize]
Classify(b) == ESCAPE_LUT[b + 1]

\* the entity table with &#39; in place of &#039;
Entity_ShortApos(idx) == IF idx = 2 THEN <<38, 35, 51, 57, 59>> ELSE ESCAPED[idx + 1]

\* an entity table that leaves & as it is
Entity_RawAmp(idx) == IF idx = 1 THEN <<38>> ELSE ESCAPED[idx + 1]

\* ESCAPED[idx]
Entity(idx) == ESCAPED[idx + 1]

(***************************************************************************)
(* Output buffer (super::buffer::Buffer): an append-only byte store.       *)
(***************************************************************************)
\* Buffer::new()
BufferNew == [data |-> <<>>]

\* Buffer::from(String): takes over the bytes of the string
BufferFrom(string) == [data |-> string]

\* Buffer::into_string(): hands the accumulated bytes back
IntoString(buffer) == buffer.data

\* Buffer::push_str: verbatim copy at the end
PushStr(buffer, bytes) == [buffer EXCEPT !.data = @ \o bytes]

\* the bytes s[from .. to - 1] (the slice start_ptr .. ptr), empty when from >= to
Slice(s, from, to) == SubSeq(s, from, to - 1)

(***************************************************************************)
(* The five signal bytes " & ' < > the vector compares look for.           *)
(***************************************************************************)
SignalBytes == {34, 38, 39, 60, 62}

(***************************************************************************)
(* Reference scanner (naive): byte by byte over s[ptr .. end - 1] with the *)
(* pending run starting at start; a signal byte flushes the run, appends   *)
(* its entity and restarts the run after it.  Yields the buffer and the    *)
(* start of the run still pending.                                         *)
(***************************************************************************)
RECURSIVE Proceed(_, _, _, _, _)
Proceed(buffer, s, start, ptr, end) ==
    IF ptr >= end
    THEN [buffer |-> buffer, start |-> start]
    ELSE LET idx == Classify(s[ptr])
         IN  IF idx < ESCAPED_LEN
             THEN Proceed(PushStr(PushStr(buffer, Slice(s, start, ptr)), Entity(idx)),
                          s, ptr + 1, ptr + 1, end)
             ELSE Proceed(buffer, s, start, ptr + 1, end)

\* a flush that leaves out the last byte of the run
Flush_DropLast(buffer, s, start, end) ==
    IF end > start THEN PushStr(buffer, Slice(s, start, end - 1)) ELSE buffer

\* flush of the trailing run s[start .. end - 1]
Flush(buffer, s, start, end) ==
    IF end > start THEN PushStr(buffer, Slice(s, start, end)) ELSE buffer

\* naive::escape(buffer, start_ptr, ptr, end_ptr)
NaiveEscape(buffer, s, start, ptr, end) ==
    LET r == Proceed(buffer, s, start, ptr, end)
    IN  Flush(r.buffer, s, r.start, end)

(***************************************************************************)
(* Portable scanner (fallback): tests a chunk of USIZE_BYTES bytes for any *)
(* signal byte and goes byte by byte only inside a chunk that has one; the *)
(* bytes after the last whole chunk are handled byte by byte.              *)
(***************************************************************************)
USIZE_BYTES == 8

\* "any signal byte present" in s[ptr .. ptr + n - 1]
ContainsKey(s, ptr, n) == \E i \in ptr .. ptr + n - 1 : s[i] \in SignalBytes

RECURSIVE FallbackProceed(_, _, _, _, _)
FallbackProceed(buffer, s, start, ptr, end) ==
    IF ptr + USIZE_BYTES <= end
    THEN IF ContainsKey(s, ptr, USIZE_BYTES)
         THEN LET r == Proceed(buffer, s, start, ptr, ptr + USIZE_BYTES)
              IN  FallbackProceed(r.buffer, s, r.start, ptr + USIZE_BYTES, end)
         ELSE FallbackProceed(buffer, s, start, ptr + USIZE_BYTES, end)
    ELSE Proceed(buffer, s, start, ptr, end)

\* fallback::escape(feed, buffer)
FallbackEscape(feed, buffer) ==
    LET end == Len(feed) + 1
        r == FallbackProceed(buffer, feed, 1, 1, end)
    IN  Flush(r.buffer, feed, r.start, end)

(***************************************************************************)
(* Vector scanners: each step loads one chunk of w bytes and builds the    *)
(* mask of the lanes holding a signal byte.  Zero mask: the chunk joins    *)
(* the pending run and the scan advances by w.  Otherwise the run up to    *)
(* the first set lane is flushed, the entity of that byte appended, and    *)
(* the scan resumes just past it.  A tail shorter than w goes to the       *)
(* portable scanner.                                                       *)
(***************************************************************************)
SSE2_VECTOR_BYTES == 16
AVX2_VECTOR_BYTES == 32

\* bit i of the mask is set iff lane i of the chunk at ptr holds a signal byte
MaskGen(s, ptr, w) == {i \in 0 .. w - 1 : s[ptr + i] \in SignalBytes}

\* mask.trailing_zeros()
TrailingZeros(mask) == CHOOSE i \in mask : \A j \in mask : i <= j

\* a step that resumes at the matching byte instead of just past it
VectorStep_AtMatch(buffer, s, start, ptr, w) ==
    LET mask == MaskGen(s, ptr, w)
    IN  IF mask = {}
        THEN [buffer |-> buffer, start |-> start, ptr |-> ptr + w]
        ELSE LET ptr2 == ptr + TrailingZeros(mask)
             IN  [buffer |-> PushStr(Flush(buffer, s, start, ptr2),
                                     Entity(Classify(s[ptr2]))),
                  start |-> ptr2 + 1, ptr |-> ptr2]

\* one step on the whole chunk s[ptr .. ptr + w - 1]: the buffer, the start
\* of the pending run and the scan position after it
VectorStep(buffer, s, start, ptr, w) ==
    LET mask == MaskGen(s, ptr, w)
    IN  IF mask = {}
        THEN [buffer |-> buffer, start |-> start, ptr |-> ptr + w]
        ELSE LET ptr2 == ptr + TrailingZeros(mask)
             IN  [buffer |-> PushStr(Flush(buffer, s, start, ptr2),
                                     Entity(Classify(s[ptr2]))),
                  start |-> ptr2 + 1, ptr |-> ptr2 + 1]

RECURSIVE VectorProceed(_, _, _, _, _, _)
VectorProceed(buffer, s, start, ptr, end, w) ==
    IF ptr + w <= end
    THEN LET r == VectorStep(buffer, s, start, ptr, w)
         IN  VectorProceed(r.buffer, s, r.start, r.ptr, end, w)
    ELSE FallbackProceed(buffer, s, start, ptr, end)

VectorEscape(feed, buffer, w) ==
    LET end == Len(feed) + 1
        r == VectorProceed(buffer, feed, 1, 1, end, w)
    IN  Flush(r.buffer, feed, r.start, end)

\* sse2::escape(feed, buffer)
Sse2Escape(feed, buffer) == VectorEscape(feed, buffer, SSE2_VECTOR_BYTES)

\* avx2::escape(feed, buffer)
Avx2Escape(feed, buffer) == VectorEscape(feed, buffer, AVX2_VECTOR_BYTES)

(***************************************************************************)
(* Text: a &str is the UTF-8 encoding of a sequence of characters.         *)
(***************************************************************************)
\* UTF-8 encoding of one code point below 65536
Utf8(cp) ==
    IF cp < 128 THEN <<cp>>
    ELSE IF cp < 2048 THEN <<192 + (cp \div 64), 128 + (cp % 64)>>
    ELSE <<224 + (cp \div 4096), 128 + ((cp \div 64) % 64), 128 + (cp % 64)>>

RECURSIVE Encode(_)
Encode(chars) ==
    IF chars = <<>> THEN <<>> ELSE Utf8(Head(chars)) \o Encode(Tail(chars))

\* all sequences of at most n elements of S
SeqsUpTo(S, n) == UNION {[1 .. k -> S] : k \in 0 .. n}

(***************************************************************************)
(* Dispatch: the functions the slot FN can point to.                       *)
(***************************************************************************)
\* pub fn escape: the first-use selector (or, built with avx2, the avx2 tier)
Selector == "escape"

DefaultTiers == {"avx2::escape", "sse2::escape", "fallback::escape"}

\* functions of the host with the shape fn(&str, &mut Buffer)
HostFns == {"host_raw", "host_nop"}

\* what register_escape_fn accepts: any fn(&str, &mut Buffer) the host can name
RegisterFns == HostFns \cup {Selector}

\* a host scanner that copies the feed verbatim
HostRaw(feed, buffer) == PushStr(buffer, feed)

\* a host scanner that appends nothing
HostNop(feed, buffer) == buffer

\* build (cfg target_feature = "avx2") and what is_x86_feature_detected! reports
Hardware ==
    {[target_avx2 |-> FALSE, avx2 |-> a, sse2 |-> s] : a \in BOOLEAN, s \in BOOLEAN}
    \cup {[target_avx2 |-> TRUE, avx2 |-> TRUE, sse2 |-> TRUE]}

\* the chain with the two vector probes in the wrong order
SelectFn_Sse2First(h) ==
    IF h.sse2 THEN "sse2::escape"
    ELSE IF h.avx2 THEN "avx2::escape"
    ELSE "fallback::escape"

\* the if / else-if chain of escape (mod.rs 43-49)
SelectFn(h) ==
    IF h.avx2 THEN "avx2::escape"
    ELSE IF h.sse2 THEN "sse2::escape"
    ELSE "fallback::escape"

\* a store that is not atomic: a reader can see the slot half written
AtomicStore_Torn(old, new) == IF old = new THEN new ELSE "torn"

\* FN.store(fun as FnRaw, Ordering::Relaxed): one atomic single-word write
AtomicStore(old, new) == new

\* FN.load(Ordering::Relaxed): the accesses to the one location FN are totally
\* ordered, and a load returns the value of the latest store in that order
AtomicLoad(slot) == slot

\* the call fun(feed, buf) of a tier or host function
CallFn(f, feed, buffer) ==
    CASE f = "avx2::escape" -> Avx2Escape(feed, buffer)
      [] f = "sse2::escape" -> Sse2Escape(feed, buffer)
      [] f = "fallback::escape" -> FallbackEscape(feed, buffer)
      [] f = "host_raw" -> HostRaw(feed, buffer)
      [] f = "host_nop" -> HostNop(feed, buffer)

(***************************************************************************)
(* State.                                                                  *)
(*   hw     build target and detected capabilities of the machine          *)
(*   FN     the dispatch slot (static FN: AtomicPtr<()>)                   *)
(*   call   per thread: the call in progress and its locals                *)
(*   probes how many times capability detection has run (saturating)       *)
(*   lastReg the function of the last register_escape_fn that returned     *)
(*   test   the differential test: its input and its three buffers         *)
(***************************************************************************)
VARIABLES hw, FN, call, probes, lastReg, test

vars == <<hw, FN, call, probes, lastReg, test>>

Threads == {"t1", "t2"}

\* the feeds of the concurrent callers: the empty text, and < followed by a
\* three-byte character
Feeds == {Encode(<<>>), Encode(<<60, 28450>>)}

\* what the output buffer (or String) holds before a call
Priors == {<<>>, <<60, 97>>}

IdleCall ==
    [pc |-> "idle", entry |-> "none", feed |-> <<>>, string |-> <<>>,
     buf |-> BufferNew, fun |-> "null", prior |-> <<>>, expected |-> "none",
     ranBy |-> "none", loads |-> 0, stored |-> "none", exec |-> "none"]

TestOff ==
    [pc |-> "off", data |-> <<>>, string |-> <<>>,
     buf1 |-> BufferNew, buf2 |-> BufferNew, buf3 |-> BufferNew]

\* static FN = AtomicPtr::new(escape as FnRaw)
Init ==
    /\ hw \in Hardware
    /\ FN = Selector
    /\ call = [t \in Threads |-> IdleCall]
    /\ probes = 0
    /\ lastReg = "none"
    /\ test = TestOff

CanCall(t) == call[t].pc \in {"idle", "done"}

InFlight(t) == call[t].pc \notin {"idle", "done"}

\* a call of pub fn escape(feed, buf) by the host
CallEscape(t, f, p) ==
    /\ CanCall(t)
    /\ call' = [call EXCEPT ![t] =
                  [pc |-> "invoke", entry |-> "escape", feed |-> f, string |-> <<>>,
                   buf |-> BufferFrom(p), fun |-> Selector, prior |-> p,
                   expected |-> lastReg, ranBy |-> "none",
                   loads |-> 0, stored |-> "none", exec |-> "none"]]
    /\ UNCHANGED <<hw, FN, probes, lastReg, test>>

\* a call of escape_to_buf(feed, buf)
CallEscapeToBuf(t, f, p) ==
    /\ CanCall(t)
    /\ call' = [call EXCEPT ![t] =
                  [pc |-> "load", entry |-> "escape_to_buf", feed |-> f,
                   string |-> <<>>, buf |-> BufferFrom(p), fun |-> "null",
                   prior |-> p, expected |-> lastReg, ranBy |-> "none",
                   loads |-> 0, stored |-> "none", exec |-> "none"]]
    /\ UNCHANGED <<hw, FN, probes, lastReg, test>>

\* a call of escape_to_string(feed, s) with s holding p: s is swapped for an
\* empty String and its bytes move into a Buffer (mod.rs 80-82)
CallEscapeToString(t, f, p) ==
    /\ CanCall(t)
    /\ call' = [call EXCEPT ![t] =
                  [pc |-> "load", entry |-> "escape_to_string", feed |-> f,
                   string |-> <<>>, buf |-> BufferFrom(p), fun |-> "null",
                   prior |-> p, expected |-> lastReg, ranBy |-> "none",
                   loads |-> 0, stored |-> "none", exec |-> "none"]]
    /\ UNCHANGED <<hw, FN, probes, lastReg, test>>

\* let fun = FN.load(Ordering::Relaxed) (mod.rs 62)
Load(t) ==
    /\ call[t].pc = "load"
    /\ call' = [call EXCEPT ![t].fun = AtomicLoad(FN), ![t].pc = "invoke",
                            ![t].loads = @ + 1]
    /\ UNCHANGED <<hw, FN, probes, lastReg, test>>

\* escape_to_string without the swap back: s keeps the empty String
Returned_NoSwapBack(c, buffer) ==
    IF c.entry = "escape_to_string"
    THEN [c EXCEPT !.pc = "done", !.buf = BufferNew]
    ELSE [c EXCEPT !.pc = "done", !.buf = buffer]

\* the call returns: escape_to_string moves the buffer back into s (mod.rs 84-85)
Returned(c, buffer) ==
    IF c.entry = "escape_to_string"
    THEN [c EXCEPT !.pc = "done", !.buf = BufferNew, !.string = IntoString(buffer)]
    ELSE [c EXCEPT !.pc = "done", !.buf = buffer]

\* what a finished call left to its caller
Result(c) == IF c.entry = "escape_to_string" THEN c.string ELSE c.buf.data

\* the body of the function a call enters when it is not the selector:
\* a tier, a host function, or escape itself in a build with avx2
Body(h, f) == IF f = Selector /\ h.target_avx2 THEN "avx2::escape" ELSE f

\* a selection that sends the empty feed to the portable tier
Chosen_BySize(h, c) ==
    IF Len(c.feed) = 0 THEN "fallback::escape" ELSE SelectFn(h)

\* let fun = if ... { ... } in the call c of escape(feed, buf) (mod.rs 43-49)
Chosen(h, c) == SelectFn(h)

\* the call enters the selector: the capability probes of mod.rs 43-49
SelectTier(t) ==
    /\ call[t].pc = "invoke"
    /\ call[t].fun = Selector
    /\ ~hw.target_avx2
    /\ call' = [call EXCEPT ![t].fun = Chosen(hw, call[t]), ![t].pc = "publish",
                            ![t].ranBy = Selector]
    /\ probes' = IF probes < MaxProbes THEN probes + 1 ELSE probes
    /\ UNCHANGED <<hw, FN, lastReg, test>>

\* FN.store(fun as FnRaw, Ordering::Relaxed) of the selector (mod.rs 51)
Publish(t) ==
    /\ call[t].pc = "publish"
    /\ FN' = AtomicStore(FN, call[t].fun)
    /\ call' = [call EXCEPT ![t].pc = "run", ![t].stored = call[t].fun]
    /\ UNCHANGED <<hw, probes, lastReg, test>>

\* a call through the slot as it is now, not through the local fun
Reloaded(c, slot) == IF slot \in DefaultTiers \cup HostFns THEN slot ELSE c.fun

\* the selector calling what the slot holds after its store
SelectedCallee_Reload(c, slot) == Reloaded(c, slot)

\* the function the selector calls: its local fun (mod.rs 52)
SelectedCallee(c, slot) == c.fun

\* escape_to_buf calling what the slot holds at the time of the call
LoadedCallee_Reload(c, slot) == Reloaded(c, slot)

\* the function escape_to_buf calls: the pointer it loaded (mod.rs 63)
LoadedCallee(c, slot) == c.fun

\* unsafe { fun(feed, buf) } of the selector (mod.rs 52)
RunSelected(t) ==
    /\ call[t].pc = "run"
    /\ LET f == SelectedCallee(call[t], FN)
       IN  call' = [call EXCEPT ![t] =
                      Returned([call[t] EXCEPT !.exec = f],
                               CallFn(f, call[t].feed, call[t].buf))]
    /\ UNCHANGED <<hw, FN, probes, lastReg, test>>

\* the loaded function runs (mod.rs 63), or escape runs avx2 (mod.rs 36-38)
RunLoaded(t) ==
    /\ call[t].pc = "invoke"
    /\ ~(call[t].fun = Selector /\ ~hw.target_avx2)
    /\ LET f == Body(hw, LoadedCallee(call[t], FN))
       IN  call' = [call EXCEPT ![t] =
                      Returned([call[t] EXCEPT !.ranBy = call[t].fun, !.exec = f],
                               CallFn(f, call[t].feed, call[t].buf))]
    /\ UNCHANGED <<hw, FN, probes, lastReg, test>>

\* register_escape_fn returning without having stored f
Register_NoStore(t, f) ==
    /\ CanCall(t)
    /\ lastReg' = f
    /\ call' = [u \in Threads |->
                  IF InFlight(u) THEN [call[u] EXCEPT !.expected = "none"] ELSE call[u]]
    /\ UNCHANGED <<hw, FN, probes, test>>

\* register_escape_fn(fun) (mod.rs 55-57); a call in flight is no longer one
\* that lies between this registration and the next
Register(t, f) ==
    /\ CanCall(t)
    /\ FN' = AtomicStore(FN, f)
    /\ lastReg' = f
    /\ call' = [u \in Threads |->
                  IF InFlight(u) THEN [call[u] EXCEPT !.expected = "none"] ELSE call[u]]
    /\ UNCHANGED <<hw, probes, test>>

Next ==
    \E t \in Threads :
        \/ \E f \in Feeds, p \in Priors : CallEscape(t, f, p)
        \/ \E f \in Feeds, p \in Priors : CallEscapeToBuf(t, f, p)
        \/ \E f \in Feeds, p \in Priors : CallEscapeToString(t, f, p)
        \/ Load(t)
        \/ SelectTier(t)
        \/ Publish(t)
        \/ RunSelected(t)
        \/ RunLoaded(t)
        \/ \E f \in RegisterFns : Register(t, f)

Spec == Init /\ [][Next]_vars

(***************************************************************************)
(* The differential test (mod.rs 92-96, 136-172) on one input: the helper  *)
(* escape(feed) through escape_to_string, then escape_to_buf into buf1,    *)
(* fallback::escape into buf2 and naive::escape into buf3.  The test is    *)
(* one thread, so each call is one step.                                   *)
(***************************************************************************)
\* filler byte at position i: the letters a..z and # in turn
Filler(i) == IF i % 27 = 26 THEN 35 ELSE 97 + (i % 27)

\* the signal byte put at position i
SignalAt(i) == <<34, 38, 39, 60, 62>>[(i % 5) + 1]

\* n bytes, fillers but for signal bytes at the positions in at
Pattern(n, at) == [i \in 1 .. n |-> IF i \in at THEN SignalAt(i) ELSE Filler(i)]

\* inputs of every length up to MaxLen with no signal byte, or with one at any
\* position, or with two that have at most MaxGap bytes between them
MaxGap == 0

LongInputs ==
    {Pattern(n, {}) : n \in 0 .. MaxLen}
    \cup {Pattern(n, {i}) : n \in 1 .. MaxLen, i \in 1 .. MaxLen}
    \cup {Pattern(n, {i, i + g}) : n \in 1 .. MaxLen, i \in 1 .. MaxLen, g \in 1 .. MaxGap + 1}

\* characters of the dense inputs: a # " & ' < > and a 2-byte and a 3-byte one
DenseChars == {97, 35, 34, 38, 39, 60, 62, 233, 28450}

DenseInputs == {Encode(cs) : cs \in SeqsUpTo(DenseChars, MaxDense)}

TestInputs == LongInputs \cup DenseInputs

InitTest ==
    /\ hw \in Hardware
    /\ FN = Selector
    /\ call = [t \in Threads |-> IdleCall]
    /\ probes = 0
    /\ lastReg = "none"
    /\ \E d \in TestInputs :
          test = [pc |-> "helper", data |-> d, string |-> <<>>,
                  buf1 |-> BufferNew, buf2 |-> BufferNew, buf3 |-> BufferNew]

\* escape_to_buf starting from an empty buffer instead of appending
EscapeToBuf_Overwrite(h, slot, feed, buffer) ==
    LET fun == AtomicLoad(slot)
        f == IF fun = Selector /\ ~h.target_avx2 THEN SelectFn(h) ELSE Body(h, fun)
    IN  [buffer |-> CallFn(f, feed, BufferNew),
         slot |-> IF fun = Selector /\ ~h.target_avx2
                  THEN AtomicStore(slot, SelectFn(h)) ELSE slot,
         probed |-> fun = Selector /\ ~h.target_avx2]

\* escape_to_buf calling the function it loaded a second time
EscapeToBuf_Twice(h, slot, feed, buffer) ==
    LET fun == AtomicLoad(slot)
        f == IF fun = Selector /\ ~h.target_avx2 THEN SelectFn(h) ELSE Body(h, fun)
    IN  [buffer |-> CallFn(f, feed, CallFn(f, feed, buffer)),
         slot |-> IF fun = Selector /\ ~h.target_avx2
                  THEN AtomicStore(slot, SelectFn(h)) ELSE slot,
         probed |-> fun = Selector /\ ~h.target_avx2]

\* one whole call of escape_to_buf(feed, buffer) by the only thread: the
\* buffer, the slot and whether capabilities were probed
EscapeToBuf(h, slot, feed, buffer) ==
    LET fun == AtomicLoad(slot)
    IN  IF fun = Selector /\ ~h.target_avx2
        THEN [buffer |-> CallFn(SelectFn(h), feed, buffer),
              slot |-> AtomicStore(slot, SelectFn(h)), probed |-> TRUE]
        ELSE [buffer |-> CallFn(Body(h, fun), feed, buffer),
              slot |-> slot, probed |-> FALSE]

\* the helper: let mut s = String::new(); escape_to_string(feed, &mut s)
TestHelper ==
    /\ test.pc = "helper"
    /\ LET r == EscapeToBuf(hw, FN, test.data, BufferFrom(test.string))
       IN  /\ test' = [test EXCEPT !.pc = "buf1", !.string = IntoString(r.buffer)]
           /\ FN' = r.slot
           /\ probes' = IF r.probed /\ probes < MaxProbes THEN probes + 1 ELSE probes
    /\ UNCHANGED <<hw, call, lastReg>>

\* escape_to_buf(s, &mut buf1) (mod.rs 164)
TestEscapeToBuf ==
    /\ test.pc = "buf1"
    /\ LET r == EscapeToBuf(hw, FN, test.data, test.buf1)
       IN  /\ test' = [test EXCEPT !.pc = "buf2", !.buf1 = r.buffer]
           /\ FN' = r.slot
           /\ probes' = IF r.probed /\ probes < MaxProbes THEN probes + 1 ELSE probes
    /\ UNCHANGED <<hw, call, lastReg>>

\* fallback::escape(s, &mut buf2) (mod.rs 165)
TestFallback ==
    /\ test.pc = "buf2"
    /\ test' = [test EXCEPT !.pc = "buf3", !.buf2 = FallbackEscape(test.data, test.buf2)]
    /\ UNCHANGED <<hw, FN, call, probes, lastReg>>

\* naive::escape(&mut buf3, s.as_ptr(), s.as_ptr(), s.as_ptr().add(s.len()))
TestNaive ==
    /\ test.pc = "buf3"
    /\ test' = [test EXCEPT !.pc = "assert",
                            !.buf3 = NaiveEscape(test.buf3, test.data, 1, 1,
                                                 Len(test.data) + 1)]
    /\ UNCHANGED <<hw, FN, call, probes, lastReg>>

NextTest == TestHelper \/ TestEscapeToBuf \/ TestFallback \/ TestNaive

SpecTest == InitTest /\ [][NextTest]_vars

(***************************************************************************)
(* The host registers a function before the first escape call, and all     *)
(* escaping goes through escape_to_buf and escape_to_string: no call is    *)
(* made before the first register_escape_fn has returned, and pub fn       *)
(* escape is never called directly (it can still be registered).           *)
(***************************************************************************)
Registered == lastReg # "none"

NextOverrideFirst ==
    \E t \in Threads :
        \/ \E f \in RegisterFns : Register(t, f)
        \/ Registered /\ \E f \in Feeds, p \in Priors : CallEscapeToBuf(t, f, p)
        \/ Registered /\ \E f \in Feeds, p \in Priors : CallEscapeToString(t, f, p)
        \/ Load(t)
        \/ SelectTier(t)
        \/ Publish(t)
        \/ RunSelected(t)
        \/ RunLoaded(t)

SpecOverrideFirst == Init /\ [][NextOverrideFirst]_vars

(***************************************************************************)
(* Two calls in a row into one buffer (and into one String), and one call  *)
(* on the concatenation of their inputs into another buffer.               *)
(***************************************************************************)
\* number of characters of each part of a dense pair
MaxPart == 1

\* pairs of texts: two dense texts, and every split of a long input that has
\* at most one signal byte
ComposePairs ==
    {<<Encode(x), Encode(y)>> : x \in SeqsUpTo(DenseChars, MaxPart),
                               y \in SeqsUpTo(DenseChars, MaxPart)}
    \cup {<<SubSeq(Pattern(MaxLen, {i}), 1, k), SubSeq(Pattern(MaxLen, {i}), k + 1, MaxLen)>> :
             i \in 0 .. MaxLen, k \in 0 .. MaxLen}

InitCompose ==
    /\ hw \in Hardware
    /\ FN = Selector
    /\ call = [t \in Threads |-> IdleCall]
    /\ probes = 0
    /\ lastReg = "none"
    /\ \E ab \in ComposePairs :
          test = [pc |-> "first", a |-> ab[1], b |-> ab[2], string |-> <<>>,
                  buf1 |-> BufferNew, buf2 |-> BufferNew]

\* one call of escape_to_buf(feed, buffer) of the sequence: the slot and the
\* probe counter after it
ComposeCall(r) ==
    /\ FN' = r.slot
    /\ probes' = IF r.probed /\ probes < MaxProbes THEN probes + 1 ELSE probes
    /\ UNCHANGED <<hw, call, lastReg>>

\* escape_to_buf(a, &mut buf1)
ComposeFirst ==
    /\ test.pc = "first"
    /\ LET r == EscapeToBuf(hw, FN, test.a, test.buf1)
       IN  /\ test' = [test EXCEPT !.pc = "second", !.buf1 = r.buffer]
           /\ ComposeCall(r)

\* escape_to_buf(b, &mut buf1)
ComposeSecond ==
    /\ test.pc = "second"
    /\ LET r == EscapeToBuf(hw, FN, test.b, test.buf1)
       IN  /\ test' = [test EXCEPT !.pc = "whole", !.buf1 = r.buffer]
           /\ ComposeCall(r)

\* escape_to_buf(a + b, &mut buf2)
ComposeWhole ==
    /\ test.pc = "whole"
    /\ LET r == EscapeToBuf(hw, FN, test.a \o test.b, test.buf2)
       IN  /\ test' = [test EXCEPT !.pc = "string1", !.buf2 = r.buffer]
           /\ ComposeCall(r)

\* escape_to_string(a, &mut s)
ComposeStringFirst ==
    /\ test.pc = "string1"
    /\ LET r == EscapeToBuf(hw, FN, test.a, BufferFrom(test.string))
       IN  /\ test' = [test EXCEPT !.pc = "string2", !.string = IntoString(r.buffer)]
           /\ ComposeCall(r)

\* escape_to_string(b, &mut s)
ComposeStringSecond ==
    /\ test.pc = "string2"
    /\ LET r == EscapeToBuf(hw, FN, test.b, BufferFrom(test.string))
       IN  /\ test' = [test EXCEPT !.pc = "assert", !.string = IntoString(r.buffer)]
           /\ ComposeCall(r)

NextCompose ==
    \/ ComposeFirst
    \/ ComposeSecond
    \/ ComposeWhole
    \/ ComposeStringFirst
    \/ ComposeStringSecond

SpecCompose == InitCompose /\ [][NextCompose]_vars

(***************************************************************************)
(* A vector scanner of width w step by step on one input: test holds the   *)
(* input, the width, the start of the pending run, the scan position and   *)
(* the buffer.  Positions are 1-based: end is one past the last byte.      *)
(***************************************************************************)
VectorWidths == {SSE2_VECTOR_BYTES, AVX2_VECTOR_BYTES}

InitVector ==
    /\ hw = [target_avx2 |-> FALSE, avx2 |-> TRUE, sse2 |-> TRUE]
    /\ FN = Selector
    /\ call = [t \in Threads |-> IdleCall]
    /\ probes = 0
    /\ lastReg = "none"
    /\ \E d \in TestInputs, w \in VectorWidths :
          test = [pc |-> "scan", data |-> d, w |-> w, start |-> 1, ptr |-> 1,
                  buf1 |-> BufferNew]

\* a whole chunk is left: one vector step
VectorChunk ==
    /\ test.pc = "scan"
    /\ test.ptr + test.w <= Len(test.data) + 1
    /\ LET r == VectorStep(test.buf1, test.data, test.start, test.ptr, test.w)
       IN  test' = [test EXCEPT !.buf1 = r.buffer, !.start = r.start, !.ptr = r.ptr]
    /\ UNCHANGED <<hw, FN, call, probes, lastReg>>

\* less than a chunk is left: the tail goes to the portable scanner and the
\* trailing run is flushed
VectorTail ==
    /\ test.pc = "scan"
    /\ test.ptr + test.w > Len(test.data) + 1
    /\ LET end == Len(test.data) + 1
           r == FallbackProceed(test.buf1, test.data, test.start, test.ptr, end)
       IN  test' = [test EXCEPT !.pc = "end", !.start = end, !.ptr = end,
                                !.buf1 = Flush(r.buffer, test.data, r.start, end)]
    /\ UNCHANGED <<hw, FN, call, probes, lastReg>>

NextVector == VectorChunk \/ VectorTail

\* the scanner is a loop of one thread: it keeps taking its next step
SpecVector == InitVector /\ [][NextVector]_vars /\ WF_vars(NextVector)

(***************************************************************************)
(* Definitions the properties are stated with.                             *)
(***************************************************************************)
\* the image of one input byte as the documentation gives it
ImageOf(b) ==
    CASE b = 34 -> <<38, 113, 117, 111, 116, 59>>    \* "  &quot;
      [] b = 38 -> <<38, 97, 109, 112, 59>>          \* &  &amp;
      [] b = 39 -> <<38, 35, 48, 51, 57, 59>>        \* '  &#039;
      [] b = 60 -> <<38, 108, 116, 59>>              \* <  &lt;
      [] b = 62 -> <<38, 103, 116, 59>>              \* >  &gt;
      [] OTHER -> <<b>>

\* the images of the bytes of s, in input order
RECURSIVE Images(_)
Images(s) == IF s = <<>> THEN <<>> ELSE ImageOf(Head(s)) \o Images(Tail(s))

IsSignal(b) == b \in {34, 38, 39, 60, 62}

HasSignal(s) == \E i \in 1 .. Len(s) : IsSignal(s[i])

IsPrefix(p, s) == Len(p) <= Len(s) /\ SubSeq(s, 1, Len(p)) = p

\* every value the slot may legitimately hold
ValidImpls == {Selector} \cup DefaultTiers \cup HostFns

\* a call that has its function pointer in hand
HasFun(t) == call[t].pc \in {"invoke", "publish", "run", "done"}

\* the test has made its escape_to_buf call
TestRan == test.pc \in {"buf2", "buf3", "assert"}

\* C1: once register_escape_fn(f) has returned, every escape call that starts
\* afterwards and before the next register_escape_fn call is executed by f,
\* not by a default tier and not by the selector.  The calls looked at are
\* those that dispatch through the slot (escape_to_buf, escape_to_string); a
\* direct call of pub fn escape never consults the slot at all.  f is a
\* function of the host, not escape itself.
C1_OverrideRunsUntilNextRegister ==
    \A t \in Threads :
        (/\ call[t].pc = "done"
         /\ call[t].entry \in {"escape_to_buf", "escape_to_string"}
         /\ call[t].expected \in HostFns)
            => call[t].ranBy = call[t].expected

\* C2: the slot always holds one complete valid implementation, and every
\* load of it by a concurrent caller returned one.
C2_SlotAlwaysValid ==
    /\ FN \in ValidImpls
    /\ \A t \in Threads : HasFun(t) => call[t].fun \in ValidImpls

\* C2 witness: a caller holds the pointer it loaded while another thread has
\* since swapped the slot to a host function.
C2_Witness ==
    \E t \in Threads :
        /\ call[t].pc = "invoke"
        /\ call[t].entry = "escape_to_buf"
        /\ call[t].fun \in DefaultTiers
        /\ FN \in HostFns

\* C3: on every input each tier (portable, 16-wide, 32-wide, and what the slot
\* resolves to by default) appends the same bytes as the reference scanner.
C3_TiersEqualReference ==
    test.pc = "assert" =>
        /\ test.buf1 = test.buf3
        /\ test.buf2 = test.buf3
        /\ \A f \in DefaultTiers : CallFn(f, test.data, BufferNew) = test.buf3

\* C3 witness: an input of two full 32-byte chunks and a remainder, with a
\* signal byte, went through the 32-wide tier.
C3_Witness ==
    /\ test.pc = "assert"
    /\ Len(test.data) > 2 * AVX2_VECTOR_BYTES
    /\ HasSignal(test.data)
    /\ FN = "avx2::escape"
    /\ test.buf1 = test.buf3
    /\ test.buf1.data # test.data

\* C4: a lone signal character yields exactly its entity, and in any input
\* each signal character is replaced by that entity, in input order.
C4_FixedMapping ==
    TestRan =>
        /\ test.data = <<34>> => test.buf1.data = <<38, 113, 117, 111, 116, 59>>
        /\ test.data = <<38>> => test.buf1.data = <<38, 97, 109, 112, 59>>
        /\ test.data = <<39>> => test.buf1.data = <<38, 35, 48, 51, 57, 59>>
        /\ test.data = <<60>> => test.buf1.data = <<38, 108, 116, 59>>
        /\ test.data = <<62>> => test.buf1.data = <<38, 103, 116, 59>>
        /\ test.buf1.data = Images(test.data)

\* C4 witness: the input ' alone was escaped to &#039;
C4_Witness ==
    /\ TestRan
    /\ test.data = <<39>>
    /\ test.buf1.data = <<38, 35, 48, 51, 57, 59>>

\* C5: an input without signal bytes, the empty one included, comes out
\* byte for byte unchanged.
C5_CleanInputUnchanged ==
    (TestRan /\ ~HasSignal(test.data)) =>
        /\ test.buf1.data = test.data
        /\ test.string = test.data

\* C5 witness: a clean input longer than one 32-byte chunk was escaped.
C5_Witness ==
    /\ TestRan
    /\ ~HasSignal(test.data)
    /\ Len(test.data) > AVX2_VECTOR_BYTES
    /\ test.buf1.data = test.data

\* where byte i of the input lands in the output
RECURSIVE OutPos(_, _)
OutPos(s, i) == IF i = 1 THEN 1 ELSE OutPos(s, i - 1) + Len(ImageOf(s[i - 1]))

\* C6: every byte other than the five signal bytes classifies NoEscape, so
\* the bytes of a multi-byte character come out contiguous, in order and
\* unchanged.
C6_MultiByteIntact ==
    /\ \A b \in 0 .. 255 : ~IsSignal(b) => Classify(b) >= ESCAPED_LEN
    /\ TestRan =>
          \A i \in 1 .. Len(test.data) : test.data[i] >= 128 =>
            \A j \in i .. Len(test.data) :
              (\A k \in i .. j : test.data[k] >= 128) =>
                  /\ OutPos(test.data, i) + (j - i) <= Len(test.buf1.data)
                  /\ SubSeq(test.buf1.data, OutPos(test.data, i),
                            OutPos(test.data, i) + (j - i))
                       = SubSeq(test.data, i, j)

\* C6 witness: a three-byte character after a signal byte came out intact
\* behind the entity.
C6_Witness ==
    /\ TestRan
    /\ test.data = <<60, 230, 188, 162>>
    /\ test.buf1.data = <<38, 108, 116, 59, 230, 188, 162>>

\* C7: a slot value written by register_escape_fn is never replaced by a
\* default tier.
C7_OverrideNeverReplacedByDefault ==
    [][(FN \in HostFns) => ~(FN' \in DefaultTiers)]_vars

\* C8: capability detection runs at most once per process.
C8_DetectAtMostOnce == probes <= 1

\* the tier the capabilities call for: avx2, then sse2, then portable
Precedence(avx2, sse2) ==
    CASE avx2 -> "avx2::escape"
      [] ~avx2 /\ sse2 -> "sse2::escape"
      [] ~avx2 /\ ~sse2 -> "fallback::escape"

\* C9: whatever the capabilities, the selector publishes the first supported
\* tier in the order avx2, sse2, portable, and so leaves the slot resolved.
C9_SelectorPrecedence ==
    [][\A t \in Threads :
          (call[t].pc = "publish" /\ call'[t].pc = "run")
              => FN' = Precedence(hw.avx2, hw.sse2)]_vars

\* C9 witness: with sse2 only, the selector has published the 16-wide tier.
C9_Witness ==
    \E t \in Threads :
        /\ call[t].pc = "run"
        /\ ~hw.avx2 /\ hw.sse2
        /\ FN = "sse2::escape"

\* what the caller's buffer or String holds once the call is over
Appended(t) ==
    call[t].pc = "done" =>
        /\ IsPrefix(call[t].prior, Result(call[t]))
        /\ call[t].fun \notin HostFns =>
              Result(call[t]) = call[t].prior \o Images(call[t].feed)

\* no step of a call in progress writes its input
FeedKept(t) == InFlight(t) => call'[t].feed = call[t].feed

\* C10: a call only appends: what was in the buffer or String stays in front,
\* a default tier puts the escaped form of the input behind it, and the input
\* is not modified.
C10_AppendOnly ==
    /\ [](\A t \in Threads : Appended(t))
    /\ [][\A t \in Threads : FeedKept(t)]_vars

\* C10 witness: escape_to_string on a String that held text, with an input
\* that needed escaping.
C10_Witness ==
    \E t \in Threads :
        /\ call[t].pc = "done"
        /\ call[t].entry = "escape_to_string"
        /\ call[t].prior = <<60, 97>>
        /\ call[t].feed = <<60, 230, 188, 162>>
        /\ call[t].string = <<60, 97, 38, 108, 116, 59, 230, 188, 162>>

\* a finished call that went through the slot
ThroughSlot(t) ==
    call[t].pc = "done" /\ call[t].entry \in {"escape_to_buf", "escape_to_string"}

\* C11: the first-use call runs its input with the very implementation it
\* has just published: what it stored into FN is what it executes.
C11_RunsWhatItPublished ==
    \A t \in Threads :
        (call[t].pc = "done" /\ call[t].stored # "none")
            => call[t].exec = call[t].stored

\* C11 witness: a call published the 16-wide tier and ran it, although the
\* slot was overridden before it ran.
C11_Witness ==
    \E t \in Threads :
        /\ call[t].pc = "done"
        /\ call[t].stored = "sse2::escape"
        /\ call[t].exec = "sse2::escape"
        /\ call[t].expected = "none"
        /\ lastReg \in HostFns

\* C12: an escape_to_buf call loads the slot once and runs that one
\* implementation over its whole input, whatever is registered meanwhile.
C12_OneLoadOneImplementation ==
    \A t \in Threads :
        ThroughSlot(t) =>
            /\ call[t].loads = 1
            /\ call[t].ranBy \in DefaultTiers \cup HostFns
                  => call[t].exec = call[t].ranBy
            /\ call[t].ranBy = Selector => call[t].exec \in DefaultTiers

\* C12 witness: a call that loaded a default tier ran it although a host
\* function was registered while it was in flight.
C12_Witness ==
    \E t \in Threads :
        /\ ThroughSlot(t)
        /\ call[t].ranBy \in DefaultTiers
        /\ call[t].exec = call[t].ranBy
        /\ call[t].expected = "none"
        /\ FN \in HostFns

\* C13: the tier the selector publishes depends on the capabilities only:
\* two first-use calls with different inputs publish the same one.
C13_SelectionIgnoresInput ==
    \A t \in Threads : \A u \in Threads :
        (call[t].stored # "none" /\ call[u].stored # "none")
            => call[t].stored = call[u].stored

\* C13 witness: two calls, one with the empty feed and one with a feed to
\* escape, have both published.
C13_Witness ==
    \E t \in Threads : \E u \in Threads :
        /\ call[t].stored # "none" /\ call[u].stored # "none"
        /\ call[t].feed = <<>>
        /\ call[u].feed = <<60, 230, 188, 162>>

\* C14: the reference scanner's output is the in-order concatenation of the
\* images of the input bytes: every byte is consumed once and no pending run
\* is left unflushed at the end.
C14_ReferenceIsImages ==
    test.pc = "assert" =>
        /\ test.buf3.data = Images(test.data)
        /\ Len(test.buf3.data)
             = Len(test.data) + 5 * Cardinality({i \in 1 .. Len(test.data) : test.data[i] = 34})
                              + 4 * Cardinality({i \in 1 .. Len(test.data) : test.data[i] = 38})
                              + 5 * Cardinality({i \in 1 .. Len(test.data) : test.data[i] = 39})
                              + 3 * Cardinality({i \in 1 .. Len(test.data) : test.data[i] \in {60, 62}})

\* C14 witness: an input whose last byte is a signal byte that directly
\* follows another one, after a run.
C14_Witness ==
    /\ test.pc = "assert"
    /\ Len(test.data) = 3
    /\ ~IsSignal(test.data[1]) /\ IsSignal(test.data[2]) /\ IsSignal(test.data[3])
    /\ test.buf3.data = Images(test.data)

\* a vector step on a zero mask advances by the width, on a non-zero mask to
\* just past the first matching byte; the position grows and stays in the input
StepAdvances ==
    (test.pc = "scan" /\ test'.pc = "scan") =>
        LET hits == {i \in test.ptr .. test.ptr + test.w - 1 : IsSignal(test.data[i])}
        IN  /\ hits = {} => test'.ptr = test.ptr + test.w
            /\ hits # {} =>
                  \E i \in hits : /\ \A j \in hits : i <= j
                                  /\ test'.ptr = i + 1
            /\ test'.ptr > test.ptr
            /\ test'.ptr <= Len(test.data) + 1

\* at the end every byte has been handled, the tail included
ScanComplete ==
    test.pc = "end" =>
        /\ test.ptr = Len(test.data) + 1
        /\ test.buf1.data = Images(test.data)

\* C15: a vector scanner of width 16 or 32 terminates on every input: each
\* step advances by the width on a zero mask and to just past the first match
\* otherwise, the position grows and stays within the input, and the scan ends
\* with every byte handled, also when the tail is shorter than the width.
C15_VectorScanTerminates ==
    /\ [][StepAdvances]_vars
    /\ []ScanComplete
    /\ <>(test.pc = "end")

\* C15 witness: the 32-wide scan of an input of two chunks and a remainder
\* with a signal byte in its first chunk has ended.
C15_Witness ==
    /\ test.pc = "end"
    /\ test.w = AVX2_VECTOR_BYTES
    /\ Len(test.data) = 2 * AVX2_VECTOR_BYTES + 1
    /\ IsSignal(test.data[5])
    /\ test.buf1.data = Images(test.data)

\* C16: escaping a and then b into the same buffer leaves the same bytes as
\* one call on a followed by b, with no override in between.
C16_Compositional ==
    test.pc = "assert" =>
        /\ test.buf1 = test.buf2
        /\ test.string = test.buf2.data

\* C16 witness: a split inside the first 32-byte chunk, the signal byte in
\* the second part.
C16_Witness ==
    /\ test.pc = "assert"
    /\ FN = "avx2::escape"
    /\ Len(test.a) = 7
    /\ Len(test.b) = MaxLen - 7
    /\ HasSignal(test.b)
    /\ test.buf1 = test.buf2

\* the five entities as byte strings
FiveEntities ==
    {<<38, 113, 117, 111, 116, 59>>, <<38, 97, 109, 112, 59>>,
     <<38, 35, 48, 51, 57, 59>>, <<38, 108, 116, 59>>, <<38, 103, 116, 59>>}

\* no raw quote or angle bracket in out, and every & of out starts an entity
SafeOutput(out) ==
    \A i \in 1 .. Len(out) :
        /\ out[i] \notin {34, 39, 60, 62}
        /\ out[i] = 38 =>
               \E e \in FiveEntities :
                   /\ i + Len(e) - 1 <= Len(out)
                   /\ SubSeq(out, i, i + Len(e) - 1) = e

\* C17: the bytes a default escape call appends contain no raw ", ', < or >,
\* and every & in them is the first byte of one of the five entities.
C17_OutputSafe ==
    TestRan => SafeOutput(test.buf1.data) /\ SafeOutput(test.string)

\* C17 witness: an input made of < and & was escaped, and the output has
\* an & for each of them.
C17_Witness ==
    /\ TestRan
    /\ test.data = <<60, 38>>
    /\ test.buf1.data = <<38, 108, 116, 59, 38, 97, 109, 112, 59>>

\* the shape of the two tables
TablesWellFormed ==
    /\ Len(ESCAPE_LUT) = 256
    /\ Len(ESCAPED) = ESCAPED_LEN
    /\ \A b \in 0 .. 255 :
          /\ Classify(b) = 9 \/ Classify(b) \in 0 .. 4
          /\ Classify(b) < ESCAPED_LEN <=> b \in {34, 38, 39, 60, 62}
          /\ Classify(b) # 9 => Classify(b) + 1 \in DOMAIN ESCAPED
    /\ 9 >= ESCAPED_LEN

\* C19: the classification table has 256 entries, each the sentinel 9 or an
\* index 0..4; an entry is below ESCAPED_LEN exactly for the five signal
\* bytes, so a non-sentinel entry always indexes the entity table in bounds,
\* and the scanners emit an entity exactly for the bytes classified below
\* ESCAPED_LEN.
C19_TableInvariant ==
    /\ TablesWellFormed
    /\ (TestRan /\ Len(test.data) = 1) =>
          test.buf1.data = IF Classify(test.data[1]) < ESCAPED_LEN
                           THEN Entity(Classify(test.data[1]))
                           ELSE test.data

\* C19 witness: the byte > alone was classified 4 and escaped to entry 4 of
\* the entity table.
C19_Witness ==
    /\ TestRan
    /\ test.data = <<62>>
    /\ Classify(62) = 4
    /\ test.buf1.data = Entity(4)

\* after the first registration: detection has not run, the slot holds a
\* function of the host, and every finished call ran a function of the host,
\* the registered one when no other registration came in between
OverrideInForce ==
    Registered =>
        /\ probes = 0
        /\ FN \in HostFns
        /\ \A t \in Threads :
              call[t].pc = "done" =>
                  /\ call[t].ranBy \in HostFns
                  /\ call[t].expected # "none" => call[t].ranBy = call[t].expected

\* C18 as stated, for any registered f: once register_escape_fn(f) has been
\* called before any escape call, detection never runs, no default tier is
\* ever stored and calls are executed by a registered function.
C18_AnyOverrideFirst ==
    Registered =>
        /\ probes = 0
        /\ FN \notin DefaultTiers
        /\ \A t \in Threads : call[t].pc = "done" => call[t].ranBy \notin DefaultTiers

\* C18: if register_escape_fn(f) is called before any escape call, all
\* escaping goes through escape_to_buf / escape_to_string, and no registered
\* function is escape itself, then the first call is executed by f,
\* capability detection never runs and no default tier is ever stored.
C18_HostOverrideFirst == [](lastReg # Selector) => []OverrideInForce

\* C18 witness: host_raw was registered before any call, a call to
\* escape_to_string on a feed with a signal byte was executed by it, and
\* detection has not run.
C18_Witness ==
    /\ lastReg = "host_raw"
    /\ probes = 0
    /\ FN = "host_raw"
    /\ \E t \in Threads :
          /\ call[t].pc = "done"
          /\ call[t].entry = "escape_to_string"
          /\ call[t].expected = "host_raw"
          /\ call[t].ranBy = "host_raw"
          /\ HasSignal(call[t].feed)
          /\ call[t].string = call[t].prior \o call[t].feed

====
